---------------------------- MODULE Spec2Model ----------------------------
(***************************************************************************)
(* Model of routes/princess_diaries.py: the transit cost index             *)
(* (build_graph, dijkstra, all_pairs_needed_dists) and the transit-aware   *)
(* scheduler (solve_princess_diaries).                                     *)
(*                                                                         *)
(* Five specifications share the definitions below.                        *)
(*   SpecDist   runs the transit cost index on its own, one priority-queue *)
(*              pop per step, over a wide family of edge lists.            *)
(*   Spec       runs solve_princess_diaries, one DP index and one          *)
(*              reconstruction step per step, over a wide family of task   *)
(*              lists; the index is built by the same operators.           *)
(*   SpecFields runs it on requests that lack keys.                        *)
(*   SpecCalls  runs it several times in a row.                            *)
(*   SpecSteps  runs it with every loop taken step by step.                *)
(***************************************************************************)
EXTENDS Integers, Sequences, FiniteSets, TLC

VARIABLES payload, pc, stations_needed, graph, distances, dj,
          tasks, p, dp_score, dp_fee, last_idx, choice, i,
          schedule_indices, result,
          calls     \* the calls made so far: their arguments and outcomes

vars == <<payload, pc, stations_needed, graph, distances, dj,
          tasks, p, dp_score, dp_fee, last_idx, choice, i,
          schedule_indices, result, calls>>

sched_vars == <<tasks, p, dp_score, dp_fee, last_idx, choice, i,
                schedule_indices, result>>

(***************************************************************************)
(* Bounds of the input families.                                           *)
(***************************************************************************)
\* stations are 0..MaxStation
MaxStation == 2
\* edge fees are 0..MaxFee (the index), 1..MaxFee (the scheduler's family)
MaxFee == 2
\* edge lists of the index family have at most MaxEdges edges
MaxEdges == 3
\* edge lists of the scheduler family have at most MaxSchedEdges edges
MaxSchedEdges == 2
\* task lists have at most MaxTasks tasks
MaxTasks == 3
\* task times are 0..MaxTime (0..MaxTime + 1 for chains of unit tasks)
MaxTime == 2
\* task scores are 0..MaxScore
MaxScore == 2
\* a run of calls has at most MaxCalls calls
MaxCalls == 3

Stations == 0..MaxStation

\* The value of a variable the running phase has not assigned yet.
Unset == "unset"

\* The empty dict.
EmptyDict == [x \in {} |-> 0]

\* Sequences over S of length at most n.
RECURSIVE SeqUpTo(_, _)
SeqUpTo(S, n) ==
    IF n = 0 THEN {<<>>}
    ELSE LET shorter == SeqUpTo(S, n - 1)
         IN shorter \cup {Append(s, x) : s \in {t \in shorter : Len(t) = n - 1}, x \in S}

Min(S) == CHOOSE x \in S : \A y \in S : x <= y

(***************************************************************************)
(* Transit cost index: build_graph, dijkstra, all_pairs_needed_dists.      *)
(***************************************************************************)

\* A mutant of add_edge: the arc v -> u is not added.
add_edge_directed(g, edge) ==
    LET u == edge.connection[1]
        v == edge.connection[2]
        w == edge.fee
    IN [g EXCEPT ![u] = Append(@, <<v, w>>)]

\* One iteration of build_graph's loop: g[u].append((v, w)); g[v].append((u, w)).
add_edge(g, edge) ==
    LET u == edge.connection[1]
        v == edge.connection[2]
        w == edge.fee
        g1 == [g EXCEPT ![u] = Append(@, <<v, w>>)]
    IN [g1 EXCEPT ![v] = Append(@, <<u, w>>)]

RECURSIVE build_graph_from(_, _, _)
build_graph_from(subway, k, g) ==
    IF k > Len(subway) THEN g
    ELSE build_graph_from(subway, k + 1, add_edge(g, subway[k]))

\* A mutant of new_graph: a graph object that outlives the call, as a
\* mutable default argument would; once a call has built a graph, the next
\* one adds its edges to it.
new_graph_kept ==
    IF distances = EmptyDict THEN [s \in Stations |-> <<>>] ELSE graph

\* Line 10, g = defaultdict(list): a new graph on every call.
\* graph.get(u, []) of a node with no edge is the empty list: the graph is
\* modelled as total over Stations, absent keys holding the empty list.
new_graph == [s \in Stations |-> <<>>]

build_graph(subway) == build_graph_from(subway, 1, new_graph)

\* Python's order on the tuples (d, u) of the priority queue.
tuple_less(a, b) == a[1] < b[1] \/ (a[1] = b[1] /\ a[2] < b[2])

\* heapq.heappush: the queue is kept as the sorted sequence of its entries,
\* so that heappop takes its head.
heappush(pq, e) ==
    LET k == Cardinality({j \in 1..Len(pq) : ~tuple_less(e, pq[j])})
    IN SubSeq(pq, 1, k) \o <<e>> \o SubSeq(pq, k + 1, Len(pq))

\* dist[v] = nd
dict_put(dist, v, nd) ==
    [x \in DOMAIN dist \cup {v} |-> IF x = v THEN nd ELSE dist[x]]

\* A mutant of improves: a distance that is no shorter is recorded and
\* pushed too.
improves_or_equal(dist, v, nd) == v \notin DOMAIN dist \/ nd <= dist[v]

\* A mutant of improves: a node once reached is never improved.
improves_first_only(dist, v, nd) == v \notin DOMAIN dist

\* The relaxation test: v not in dist or nd < dist[v].
improves(dist, v, nd) == v \notin DOMAIN dist \/ nd < dist[v]

\* The loop `for v, w in graph.get(u, [])` from its k-th arc on.
RECURSIVE relax(_, _, _, _)
relax(adj, k, du, st) ==
    IF k > Len(adj) THEN st
    ELSE LET v == adj[k][1]
             nd == du + adj[k][2]
         IN IF improves(st.dist, v, nd)
            THEN relax(adj, k + 1, du,
                       [st EXCEPT !.dist = dict_put(st.dist, v, nd),
                                  !.pq = heappush(st.pq, <<nd, v>>)])
            ELSE relax(adj, k + 1, du, st)

\* dist = {}; pq = [(0, start)]; dist[start] = 0
dijkstra_init(start) ==
    [start |-> start, dist |-> (start :> 0), pq |-> <<<<0, start>>>>]

\* One iteration of `while pq`: pop, skip a stale entry, relax the arcs.
dijkstra_step(g, st) ==
    LET du == Head(st.pq)[1]
        u == Head(st.pq)[2]
        popped == [st EXCEPT !.pq = Tail(st.pq)]
    IN IF du # st.dist[u] THEN popped
       ELSE relax(g[u], 1, du, popped)

RECURSIVE dijkstra_run(_, _)
dijkstra_run(g, st) ==
    IF st.pq = <<>> THEN st.dist ELSE dijkstra_run(g, dijkstra_step(g, st))

dijkstra(start, g) == dijkstra_run(g, dijkstra_init(start))

all_pairs_needed_dists(needed, g) == [u \in needed |-> dijkstra(u, g)]


(***************************************************************************)
(* Scheduler: the helpers of solve_princess_diaries.                       *)
(***************************************************************************)

\* What evaluating an integer expression gives: a value, or KeyError raised.
Val(n) == [raised |-> FALSE, value |-> n]
KeyError == [raised |-> TRUE, value |-> 0]

\* A mutant of d: no shortcut for u == v, the table is always consulted.
d_lookup_only(u, v) ==
    IF u \in DOMAIN distances /\ v \in DOMAIN distances[u]
    THEN Val(distances[u][v])
    ELSE KeyError

\* A mutant of d: a missing distance counts as 0, distances[u].get(v, 0).
d_default_zero(u, v) ==
    IF u = v THEN Val(0)
    ELSE IF u \in DOMAIN distances /\ v \in DOMAIN distances[u]
         THEN Val(distances[u][v])
         ELSE Val(0)

\* The closure d(u, v) over the distance table: distances[u][v] raises
\* KeyError where the table has no entry.
d(u, v) ==
    IF u = v THEN Val(0)
    ELSE IF u \in DOMAIN distances /\ v \in DOMAIN distances[u]
         THEN Val(distances[u][v])
         ELSE KeyError

\* a + b and a - b, left to right: an exception raised in an operand is
\* the expression's outcome.
plus(a, b) == IF a.raised \/ b.raised THEN KeyError ELSE Val(a.value + b.value)
minus(a, b) == IF a.raised \/ b.raised THEN KeyError ELSE Val(a.value - b.value)

\* Python's order on tuples of three integers.
triple_less(a, b) ==
    \/ a[1] < b[1]
    \/ a[1] = b[1] /\ a[2] < b[2]
    \/ a[1] = b[1] /\ a[2] = b[2] /\ a[3] < b[3]

\* key=lambda x: (x["end"], x["start"], x["name"])
dp_key(x) == <<x.end, x.start, x.name>>

\* key=lambda x: (x["start"], x["end"], x["name"])
schedule_key(x) == <<x.start, x.end, x.name>>

\* list.sort(key=...): a stable sort, an element going after those of the
\* sorted prefix whose key is not greater. ks is the sequence of keys.
RECURSIVE sort_perm(_, _)
sort_perm(ks, n) ==
    IF n = 0 THEN <<>>
    ELSE LET done == sort_perm(ks, n - 1)
             k == Cardinality({j \in 1..Len(done) : ~triple_less(ks[n], ks[done[j]])})
         IN SubSeq(done, 1, k) \o <<n>> \o SubSeq(done, k + 1, Len(done))

sort_dp(ts) ==
    LET perm == sort_perm([k \in 1..Len(ts) |-> dp_key(ts[k])], Len(ts))
    IN [k \in 1..Len(ts) |-> ts[perm[k]]]

sort_schedule(ts) ==
    LET perm == sort_perm([k \in 1..Len(ts) |-> schedule_key(ts[k])], Len(ts))
    IN [k \in 1..Len(ts) |-> ts[perm[k]]]

\* bisect.bisect_right(a, x) on the 0-based list a (a[mid] is a[mid + 1] here).
RECURSIVE bisect_loop(_, _, _, _)
bisect_loop(a, x, lo, hi) ==
    IF lo >= hi THEN lo
    ELSE LET mid == (lo + hi) \div 2
         IN IF x < a[mid + 1] THEN bisect_loop(a, x, lo, mid)
            ELSE bisect_loop(a, x, mid + 1, hi)

bisect_right(a, x) == bisect_loop(a, x, 0, Len(a))

\* j = bisect_right(ends, start_i) - 1; p[i] = 0 if j < 0 else (j + 1)
predecessor(ends, start_i) ==
    LET j == bisect_right(ends, start_i) - 1
    IN IF j < 0 THEN 0 ELSE j + 1

\* A mutant of predecessors: the task before i is taken for its predecessor.
predecessors_previous(ts) ==
    [k \in 0..Len(ts) |-> IF k = 0 THEN 0 ELSE k - 1]

\* Lines 80-86: the array p, 1-based, p[0] = 0.
predecessors(ts) ==
    LET ends == [k \in 1..Len(ts) |-> ts[k].end]
    IN [k \in 0..Len(ts) |-> IF k = 0 THEN 0 ELSE predecessor(ends, ts[k].start)]

\* A mutant of take_fee: the old return leg is not removed.
take_fee_keeps_return(ts, prev_fee, prev_last, idx) ==
    LET s0 == payload.starting_station
        si == ts[idx].station
    IN IF prev_last = -1
       THEN plus(d(s0, si), d(si, s0))
       ELSE plus(plus(Val(prev_fee), d(ts[prev_last].station, si)), d(si, s0))

\* The fee of the schedule of the predecessor state with task idx appended
\* (lines 113-121).
take_fee(ts, prev_fee, prev_last, idx) ==
    LET s0 == payload.starting_station
        si == ts[idx].station
    IN IF prev_last = -1
       THEN plus(d(s0, si), d(si, s0))
       ELSE LET slast == ts[prev_last].station
            IN plus(plus(minus(Val(prev_fee), d(slast, s0)), d(slast, si)),
                    d(si, s0))

\* A mutant of takes: a lower fee wins whatever the score, `or` for `and`.
takes_on_lower_fee(take_score, fee, best_score, best_fee) ==
    take_score > best_score \/ fee < best_fee

\* A mutant of takes: only the score decides.
takes_on_score_only(take_score, fee, best_score, best_fee) ==
    take_score > best_score

\* The selection rule of line 124.
takes(take_score, fee, best_score, best_fee) ==
    \/ take_score > best_score
    \/ take_score = best_score /\ fee < best_fee

\* The list a reversed.
reversed(a) == [k \in 1..Len(a) |-> a[Len(a) + 1 - k]]

\* A mutant of no_tasks: the early return is never taken.
no_tasks_never(tasks_raw) == FALSE

\* The early return's test, `not tasks_raw`.
no_tasks(tasks_raw) == tasks_raw = <<>>

\* A dict is a record; its keys are the record's fields, so a key the
\* request lacks is a field the record does not have.
has(dict, key) == key \in DOMAIN dict

\* dict.get(key, default)
get(dict, key, default) == IF has(dict, key) THEN dict[key] ELSE default

\* Line 44: tasks_raw = payload.get("tasks", [])
get_tasks_raw(pl) == get(pl, "tasks", <<>>)

\* Line 45: subway = payload.get("subway", [])
get_subway(pl) == get(pl, "subway", <<>>)

\* The keys lines 56-60 read of a task, and lines 11-12 of an edge.
TaskKeys == {"name", "start", "end", "station", "score"}

EdgeKeys == {"connection", "fee"}

\* Whether the call raises before the graph is built: int(None) at line 46
\* when the home station is missing (ahead of the early return), and for a
\* non-empty task list a KeyError of t[...] at lines 56-60 or of edge[...]
\* in build_graph. An empty task list returns at line 50, ahead of both.
raises_on_missing(pl) ==
    \/ ~has(pl, "starting_station")
    \/ /\ ~no_tasks(get_tasks_raw(pl))
       /\ \/ \E k \in 1..Len(get_tasks_raw(pl)) :
                ~(TaskKeys \subseteq DOMAIN get_tasks_raw(pl)[k])
          \/ \E k \in 1..Len(get_subway(pl)) :
                ~(EdgeKeys \subseteq DOMAIN get_subway(pl)[k])

(***************************************************************************)
(* Input families.                                                         *)
(***************************************************************************)

\* An edge record {"connection": [u, v], "fee": w}.
Edge(u, v, w) == [connection |-> <<u, v>>, fee |-> w]

\* Edges of the index family: any pair u <= v, a self-loop included, with a
\* fee that may be 0; the same pair may occur several times in a list.
IndexEdges ==
    {e \in {Edge(u, v, w) : u \in Stations, v \in Stations, w \in 0..MaxFee} :
        e.connection[1] <= e.connection[2]}

IndexSubways == SeqUpTo(IndexEdges, MaxEdges)

\* A task record as solve_princess_diaries normalises it.
Task(name, start, end, station, score) ==
    [name |-> name, start |-> start, end |-> end, station |-> station,
     score |-> score]

\* Lines 53-62: the list of normalised tasks, each a new dict of the five
\* fields read from the raw task.
normalise(tasks_raw) ==
    [k \in 1..Len(tasks_raw) |->
        Task(tasks_raw[k].name, tasks_raw[k].start, tasks_raw[k].end,
             tasks_raw[k].station, tasks_raw[k].score)]

\* One task at each station of the sequence ss, all in [0, 1] with score 1.
StationTasks(ss) == [k \in 1..Len(ss) |-> Task(k, 0, 1, ss[k], 1)]

\* The elements of a set of integers in ascending order.
RECURSIVE Ascending(_)
Ascending(S) == IF S = {} THEN <<>> ELSE <<Min(S)>> \o Ascending(S \ {Min(S)})

\* Edges of the scheduler family: a pair u < v with a positive fee.
SchedEdges ==
    {e \in {Edge(u, v, w) : u \in Stations, v \in Stations, w \in 1..MaxFee} :
        e.connection[1] < e.connection[2]}

EdgeCode(e) ==
    (e.connection[1] * (MaxStation + 1) + e.connection[2]) * (MaxFee + 1) + e.fee

\* Edge lists of the scheduler family: distinct edges in ascending order,
\* so connected, disconnected and multi-hop graphs all occur.
SchedSubways ==
    {sw \in SeqUpTo(SchedEdges, MaxSchedEdges) :
        \A k \in 1..(Len(sw) - 1) : EdgeCode(sw[k]) < EdgeCode(sw[k + 1])}

\* A raw task's fields besides its name: end > start, as the problem states.
TaskFields ==
    {f \in (0..MaxTime) \X (0..MaxTime) \X Stations \X (0..MaxScore) : f[1] < f[2]}

\* Raw task lists of at most MaxTasks tasks. Reordering the input changes
\* nothing but which task of several with equal (end, start) the sort puts
\* first, so one order per multiset of times is kept: the list runs from
\* the latest (end, start) to the earliest, names distinct and counting
\* down, and the sort by (end, start, name) has to reverse it. Tasks of
\* equal times occur in every order of their stations and scores.
RawTasks(fs) ==
    [k \in 1..Len(fs) |->
        Task(Len(fs) + 1 - k, fs[k][1], fs[k][2], fs[k][3], fs[k][4])]

LaterOrEqual(f, g) == f[2] > g[2] \/ (f[2] = g[2] /\ f[1] >= g[1])

TaskLists ==
    {RawTasks(fs) : fs \in {s \in SeqUpTo(TaskFields, MaxTasks) :
        \A k \in 1..(Len(s) - 1) : LaterOrEqual(s[k], s[k + 1])}}

\* Chains: tasks of unit length and positive score over one more time
\* unit, so that MaxTasks tasks can follow one another.
ChainFields ==
    {f \in (0..MaxTime) \X (1..(MaxTime + 1)) \X Stations \X (1..MaxScore) :
        f[2] = f[1] + 1}

ChainLists ==
    {RawTasks(fs) : fs \in {s \in SeqUpTo(ChainFields, MaxTasks) :
        \A k \in 1..(Len(s) - 1) : LaterOrEqual(s[k], s[k + 1])}}

\* The home station of every input: the families are closed under renaming
\* the stations, so one home stands for all.
HomeStations == {0}

\* The record of calls when the first call is entered with argument pl.
first_call(pl) == [made |-> 1, arg |-> pl, log |-> <<>>]

(***************************************************************************)
(* SpecDist: the transit cost index, step by step.                         *)
(* It starts where solve_princess_diaries has normalised a non-empty task  *)
(* list (line 62) and is about to build the graph and the distances.       *)
(***************************************************************************)

IdleFrame == [start |-> Unset, dist |-> EmptyDict, pq |-> <<>>]

InitDist ==
    /\ \E s0 \in Stations, extra \in SUBSET Stations, sw \in IndexSubways :
          /\ extra # {}
          /\ payload = [starting_station |-> s0,
                        tasks |-> StationTasks(Ascending(extra)),
                        subway |-> sw]
          /\ stations_needed = {s0} \cup extra
          /\ tasks = StationTasks(Ascending(extra))
    /\ pc = "build_graph"
    /\ graph = Unset
    /\ distances = EmptyDict
    /\ dj = IdleFrame
    /\ p = Unset /\ dp_score = Unset /\ dp_fee = Unset /\ last_idx = Unset
    /\ choice = Unset /\ i = Unset /\ schedule_indices = Unset
    /\ result = Unset
    /\ calls = first_call(payload)

\* graph = build_graph(subway)
BuildGraph ==
    /\ pc = "build_graph"
    /\ graph' = build_graph(payload.subway)
    /\ pc' = "all_pairs"
    /\ UNCHANGED <<calls, payload, stations_needed, distances, dj, sched_vars>>

\* `for u in needed_stations`, entering dijkstra(u, graph): the iteration
\* order of a Python set is not specified, so any remaining u may come next.
DijkstraStart ==
    /\ pc = "all_pairs"
    /\ \E u \in stations_needed \ DOMAIN distances : dj' = dijkstra_init(u)
    /\ pc' = "dijkstra"
    /\ UNCHANGED <<calls, payload, stations_needed, graph, distances, sched_vars>>

\* One iteration of dijkstra's `while pq`.
DijkstraPop ==
    /\ pc = "dijkstra"
    /\ dj.pq # <<>>
    /\ dj' = dijkstra_step(graph, dj)
    /\ UNCHANGED <<calls, payload, pc, stations_needed, graph, distances, sched_vars>>

\* `return dist` and distances[u] = dist.
DijkstraReturn ==
    /\ pc = "dijkstra"
    /\ dj.pq = <<>>
    /\ distances' = dict_put(distances, dj.start, dj.dist)
    /\ dj' = IdleFrame
    /\ pc' = "all_pairs"
    /\ UNCHANGED <<calls, payload, stations_needed, graph, sched_vars>>

\* `return distances`, every needed station done.
AllPairsReturn ==
    /\ pc = "all_pairs"
    /\ stations_needed \subseteq DOMAIN distances
    /\ pc' = "indexed"
    /\ UNCHANGED <<calls, payload, stations_needed, graph, distances, dj, sched_vars>>

NextDist ==
    \/ BuildGraph
    \/ DijkstraStart
    \/ DijkstraPop
    \/ DijkstraReturn
    \/ AllPairsReturn

SpecDist == InitDist /\ [][NextDist]_vars


(***************************************************************************)
(* Spec: solve_princess_diaries, from the payload to the result.           *)
(***************************************************************************)

Init ==
    /\ \E s0 \in HomeStations :
          \/ \E tl \in TaskLists \cup ChainLists, sw \in SchedSubways :
                payload = [starting_station |-> s0, tasks |-> tl, subway |-> sw]
          \/ \E sw \in IndexSubways :
                payload = [starting_station |-> s0, tasks |-> <<>>, subway |-> sw]
    /\ pc = "start"
    /\ stations_needed = Unset
    /\ graph = Unset
    /\ distances = EmptyDict
    /\ dj = IdleFrame
    /\ tasks = Unset
    /\ p = Unset /\ dp_score = Unset /\ dp_fee = Unset /\ last_idx = Unset
    /\ choice = Unset /\ i = Unset /\ schedule_indices = Unset
    /\ result = Unset
    /\ calls = first_call(payload)

\* Lines 44-50: the early return of an empty task list.
ReturnEmpty ==
    /\ pc = "start"
    /\ has(payload, "starting_station")
    /\ no_tasks(get_tasks_raw(payload))
    /\ result' = [max_score |-> 0, min_fee |-> 0, schedule |-> <<>>]
    /\ pc' = "done"
    /\ UNCHANGED <<calls, payload, stations_needed, graph, distances, dj, tasks, p,
                   dp_score, dp_fee, last_idx, choice, i, schedule_indices>>

\* Lines 76-93: sort the tasks, compute p and set the DP arrays up; the
\* DP loop comes next, or the reconstruction when there is no task.
SetUp(normalised) ==
    LET sorted == sort_dp(normalised)
        n == Len(sorted)
    IN /\ tasks' = sorted
       /\ p' = predecessors(sorted)
       /\ dp_score' = [k \in 0..n |-> 0]
       /\ dp_fee' = [k \in 0..n |-> 0]
       /\ last_idx' = [k \in 0..n |-> -1]
       /\ choice' = [k \in 0..n |-> 0]
       /\ i' = IF n = 0 THEN 0 ELSE 1
       /\ schedule_indices' = IF n = 0 THEN <<>> ELSE Unset
       /\ pc' = IF n = 0 THEN "reconstruct" ELSE "dp"

\* Lines 54 and 62: stations_needed, the stations the distances are needed for.
needed_stations(s0, normalised) ==
    {s0} \cup {normalised[k].station : k \in 1..Len(normalised)}

\* Lines 52-93: normalise the tasks, build the graph and the distances,
\* sort the tasks, compute p and set the DP arrays up.
Prepare ==
    /\ pc = "start"
    /\ ~raises_on_missing(payload)
    /\ ~no_tasks(get_tasks_raw(payload))
    /\ LET raw == normalise(get_tasks_raw(payload))
           needed == needed_stations(payload.starting_station, raw)
           g == build_graph(get_subway(payload))
       IN /\ stations_needed' = needed
          /\ graph' = g
          /\ distances' = all_pairs_needed_dists(needed, g)
          /\ SetUp(raw)
    /\ UNCHANGED <<calls, payload, dj, result>>

\* Lines 97-133: one iteration of the DP loop. A lookup of a missing
\* distance raises KeyError, which ends the call.
DPStep ==
    /\ pc = "dp"
    /\ LET n == Len(tasks)
           j == p[i]
           prev_score == dp_score[j]
           prev_fee == dp_fee[j]
           prev_last == last_idx[j]
           take_score == prev_score + tasks[i].score
           outcome == take_fee(tasks, prev_fee, prev_last, i)
       IN IF outcome.raised
          THEN /\ pc' = "error"
               /\ UNCHANGED <<dp_score, dp_fee, last_idx, choice, i,
                              schedule_indices>>
          ELSE LET fee == outcome.value
                   take == takes(take_score, fee, dp_score[i - 1], dp_fee[i - 1])
               IN /\ dp_score' = [dp_score EXCEPT
                                     ![i] = IF take THEN take_score ELSE dp_score[i - 1]]
                  /\ dp_fee' = [dp_fee EXCEPT
                                   ![i] = IF take THEN fee ELSE dp_fee[i - 1]]
                  /\ last_idx' = [last_idx EXCEPT
                                     ![i] = IF take THEN i ELSE last_idx[i - 1]]
                  /\ choice' = [choice EXCEPT ![i] = IF take THEN 1 ELSE 0]
                  /\ IF i < n
                     THEN /\ i' = i + 1
                          /\ pc' = "dp"
                          /\ UNCHANGED schedule_indices
                     ELSE /\ i' = n
                          /\ pc' = "reconstruct"
                          /\ schedule_indices' = <<>>
    /\ UNCHANGED <<calls, payload, stations_needed, graph, distances, dj, tasks, p,
                   result>>

\* Lines 138-143: one iteration of the reconstruction loop.
ReconstructStep ==
    /\ pc = "reconstruct"
    /\ i > 0
    /\ IF choice[i] = 1
       THEN /\ schedule_indices' = Append(schedule_indices, i)
            /\ i' = p[i]
       ELSE /\ i' = i - 1
            /\ UNCHANGED schedule_indices
    /\ UNCHANGED <<calls, payload, pc, stations_needed, graph, distances, dj, tasks,
                   p, dp_score, dp_fee, last_idx, choice, result>>

\* Lines 144-155: order the selected tasks by start time and return.
Return ==
    /\ pc = "reconstruct"
    /\ i = 0
    /\ LET indices == reversed(schedule_indices)
           selected == sort_schedule([k \in 1..Len(indices) |-> tasks[indices[k]]])
       IN result' = [max_score |-> dp_score[Len(tasks)],
                     min_fee |-> dp_fee[Len(tasks)],
                     schedule |-> [k \in 1..Len(selected) |-> selected[k].name]]
    /\ pc' = "done"
    /\ UNCHANGED <<calls, payload, stations_needed, graph, distances, dj, tasks, p,
                   dp_score, dp_fee, last_idx, choice, i, schedule_indices>>

Next ==
    \/ ReturnEmpty
    \/ Prepare
    \/ DPStep
    \/ ReconstructStep
    \/ Return

Spec == Init /\ [][Next]_vars


(***************************************************************************)
(* SpecFields: solve_princess_diaries on requests that may lack keys.      *)
(***************************************************************************)

\* The dict without one of its keys.
Drop(dict, key) == [f \in DOMAIN dict \ {key} |-> dict[f]]

\* The list whose k-th dict has lost a key.
DropIn(list, k, key) == [list EXCEPT ![k] = Drop(list[k], key)]

\* Complete requests: no task or one task at each of some stations, over
\* the scheduler family's edge lists.
FieldBases ==
    {[starting_station |-> s0, tasks |-> tl, subway |-> sw] :
        s0 \in HomeStations,
        tl \in {StationTasks(Ascending(extra)) : extra \in SUBSET Stations},
        sw \in SchedSubways}

\* A request and the requests that differ from it by one key missing from
\* one task or from one edge.
ElementDrops(pl) ==
    {pl}
    \cup {[pl EXCEPT !.tasks = DropIn(pl.tasks, k, key)] :
             k \in 1..Len(pl.tasks), key \in TaskKeys}
    \cup {[pl EXCEPT !.subway = DropIn(pl.subway, k, key)] :
             k \in 1..Len(pl.subway), key \in EdgeKeys}

\* A request with any of its own keys missing.
TopDrops(pl) == {[f \in keys |-> pl[f]] : keys \in SUBSET DOMAIN pl}

FieldPayloads ==
    UNION {TopDrops(q) : q \in UNION {ElementDrops(b) : b \in FieldBases}}

InitFields ==
    /\ payload \in FieldPayloads
    /\ pc = "start"
    /\ stations_needed = Unset
    /\ graph = Unset
    /\ distances = EmptyDict
    /\ dj = IdleFrame
    /\ tasks = Unset
    /\ p = Unset /\ dp_score = Unset /\ dp_fee = Unset /\ last_idx = Unset
    /\ choice = Unset /\ i = Unset /\ schedule_indices = Unset
    /\ result = Unset
    /\ calls = first_call(payload)

\* Lines 46-65: the TypeError of int(None) or the KeyError of a missing
\* key ends the call.
RaiseOnMissing ==
    /\ pc = "start"
    /\ raises_on_missing(payload)
    /\ pc' = "error"
    /\ UNCHANGED <<calls, payload, stations_needed, graph, distances, dj, sched_vars>>

NextFields ==
    \/ RaiseOnMissing
    \/ ReturnEmpty
    \/ Prepare
    \/ DPStep
    \/ ReconstructStep
    \/ Return

SpecFields == InitFields /\ [][NextFields]_vars


(***************************************************************************)
(* SpecCalls: a run of calls of solve_princess_diaries, one after another. *)
(* Nothing clears what a call leaves behind: the objects it built stay     *)
(* where they are when the next call is entered, and the next call has to  *)
(* assign whatever it reads. The steps of an invocation that runs          *)
(* interleaved with the call are stuttering steps here, since an           *)
(* invocation writes its own locals only.                                  *)
(***************************************************************************)

\* Task lists of the calls: none, one unit task, or two unit tasks back to
\* back, of score 1 at stations other than home.
CallTasks ==
    {tl \in ChainLists :
        /\ Len(tl) <= 2
        /\ \A k \in 1..Len(tl) : /\ tl[k].score = 1
                                 /\ tl[k].start = Len(tl) - k
                                 /\ tl[k].station \notin HomeStations}

\* Edge lists of the calls: the scheduler family's with every fee 1.
CallSubways == {sw \in SchedSubways : \A k \in 1..Len(sw) : sw[k].fee = 1}

CallPayloads ==
    {[starting_station |-> s0, tasks |-> tl, subway |-> sw] :
        s0 \in HomeStations, tl \in CallTasks, sw \in CallSubways}

\* What the caller gets from the call that has ended: the exception or the
\* value returned.
Outcome ==
    IF pc = "error"
    THEN [raised |-> TRUE,
          value |-> [max_score |-> 0, min_fee |-> 0, schedule |-> <<>>]]
    ELSE [raised |-> FALSE, value |-> result]

InitCalls ==
    /\ payload \in CallPayloads
    /\ pc = "start"
    /\ stations_needed = Unset
    /\ graph = Unset
    /\ distances = EmptyDict
    /\ dj = IdleFrame
    /\ tasks = Unset
    /\ p = Unset /\ dp_score = Unset /\ dp_fee = Unset /\ last_idx = Unset
    /\ choice = Unset /\ i = Unset /\ schedule_indices = Unset
    /\ result = Unset
    /\ calls = first_call(payload)

\* The call has ended and solve_princess_diaries is called again, with any
\* payload; the ended call goes to the log.
NewCall ==
    /\ pc \in {"done", "error"}
    /\ calls.made < MaxCalls
    /\ \E pl \in CallPayloads :
          /\ payload' = pl
          /\ calls' = [made |-> calls.made + 1,
                       arg |-> pl,
                       log |-> Append(calls.log, <<calls.arg, Outcome>>)]
    /\ pc' = "start"
    /\ result' = Unset
    /\ UNCHANGED <<stations_needed, graph, distances, dj, tasks, p, dp_score,
                   dp_fee, last_idx, choice, i, schedule_indices>>

NextCalls ==
    \/ NewCall
    \/ ReturnEmpty
    \/ Prepare
    \/ DPStep
    \/ ReconstructStep
    \/ Return

SpecCalls == InitCalls /\ [][NextCalls]_vars


(***************************************************************************)
(* SpecSteps: solve_princess_diaries with every loop taken step by step:   *)
(* the transit cost index as in SpecDist, the DP and the reconstruction as *)
(* in Spec.                                                                *)
(***************************************************************************)

\* Task lists of scores 0 and 1: the scheduler's lists and the chains.
StepTasks ==
    {tl \in TaskLists \cup ChainLists : \A k \in 1..Len(tl) : tl[k].score <= 1}

\* Edge lists for them: one edge of the index family at most (fee 0, a
\* self-loop), or the edge lists of the calls.
StepSubways == {sw \in IndexSubways : Len(sw) <= 1} \cup CallSubways

\* Either one task at each of some stations over the index family's edge
\* lists (fee 0, self-loops, the same pair several times, cycles), or the
\* task lists above over the edge lists above.
InitSteps ==
    /\ \E s0 \in HomeStations :
          \/ \E extra \in SUBSET Stations, sw \in IndexSubways :
                payload = [starting_station |-> s0,
                           tasks |-> StationTasks(Ascending(extra)),
                           subway |-> sw]
          \/ \E tl \in StepTasks, sw \in StepSubways :
                payload = [starting_station |-> s0, tasks |-> tl, subway |-> sw]
    /\ pc = "start"
    /\ stations_needed = Unset
    /\ graph = Unset
    /\ distances = EmptyDict
    /\ dj = IdleFrame
    /\ tasks = Unset
    /\ p = Unset /\ dp_score = Unset /\ dp_fee = Unset /\ last_idx = Unset
    /\ choice = Unset /\ i = Unset /\ schedule_indices = Unset
    /\ result = Unset
    /\ calls = first_call(payload)

\* Lines 52-62: normalise the tasks and collect the stations needed.
Normalise ==
    /\ pc = "start"
    /\ ~raises_on_missing(payload)
    /\ ~no_tasks(get_tasks_raw(payload))
    /\ tasks' = normalise(get_tasks_raw(payload))
    /\ stations_needed' =
          needed_stations(payload.starting_station,
                          normalise(get_tasks_raw(payload)))
    /\ pc' = "build_graph"
    /\ UNCHANGED <<calls, payload, graph, distances, dj, p, dp_score, dp_fee,
                   last_idx, choice, i, schedule_indices, result>>

\* Lines 76-93, the distances being there.
SortAndSetUp ==
    /\ pc = "indexed"
    /\ SetUp(tasks)
    /\ UNCHANGED <<calls, payload, stations_needed, graph, distances, dj,
                   result>>

NextSteps ==
    \/ ReturnEmpty
    \/ Normalise
    \/ BuildGraph
    \/ DijkstraStart
    \/ DijkstraPop
    \/ DijkstraReturn
    \/ AllPairsReturn
    \/ SortAndSetUp
    \/ DPStep
    \/ ReconstructStep
    \/ Return

SpecSteps == InitSteps /\ [][NextSteps]_vars


(***************************************************************************)
(* Reference definitions the claims are stated with. They are computed     *)
(* from the payload alone, by other means than the program's.              *)
(***************************************************************************)

\* The arcs of an edge list, both directions of every edge.
RefArcs(sw) ==
    {<<sw[k].connection[1], sw[k].connection[2], sw[k].fee>> : k \in 1..Len(sw)}
        \cup {<<sw[k].connection[2], sw[k].connection[1], sw[k].fee>> : k \in 1..Len(sw)}

\* Bellman-Ford rounds: after n rounds, the cheapest walks of at most n more arcs.
RECURSIVE RefRounds(_, _, _)
RefRounds(arcs, dist, n) ==
    IF n = 0 THEN dist
    ELSE LET cand(v) ==
                 {dist[x] : x \in {v} \cap DOMAIN dist}
                     \cup {dist[a[1]] + a[3] :
                              a \in {x \in arcs : x[2] = v /\ x[1] \in DOMAIN dist}}
             reach == {v \in Stations : cand(v) # {}}
         IN RefRounds(arcs, [v \in reach |-> Min(cand(v))], n - 1)

\* The cheapest path fee from u to every station reachable from u.
RefDist(sw, u) == RefRounds(RefArcs(sw), (u :> 0), Cardinality(Stations))

\* The fees of the edges that join a and b directly.
DirectFees(sw, a, b) == {x[3] : x \in {y \in RefArcs(sw) : y[1] = a /\ y[2] = b}}

\* The stations that occur in some edge.
EdgeStations(sw) == {x[1] : x \in RefArcs(sw)}

(***************************************************************************)
(* Claims on the transit cost index, checked under SpecDist.               *)
(***************************************************************************)

\* C5: once the index is built, for every queried source u the table
\* distances[u] is defined exactly on the stations reachable from u and
\* holds the minimum total fee of a path from u, as a reference
\* shortest-path computation over the edge list gives it.
C5_DistancesAreShortestPaths ==
    pc = "indexed" =>
        /\ DOMAIN distances = stations_needed
        /\ \A u \in stations_needed : distances[u] = RefDist(payload.subway, u)

\* C5 witness: the index is built, a queried source has a station it cannot
\* reach, and a station it reaches by several hops for less than the
\* cheapest of the parallel edges that join the two directly.
C5_Witness ==
    /\ pc = "indexed"
    /\ \E u \in stations_needed :
          /\ DOMAIN distances[u] # Stations
          /\ \E v \in DOMAIN distances[u] :
                /\ Cardinality(DirectFees(payload.subway, u, v)) >= 1
                /\ \A f \in DirectFees(payload.subway, u, v) : distances[u][v] < f

\* C6: once the index is built, for queried a and b the entry for (a, b) is
\* defined iff the entry for (b, a) is, and then both are equal.
C6_DistancesSymmetric ==
    pc = "indexed" =>
        \A a \in stations_needed, b \in stations_needed :
            /\ (b \in DOMAIN distances[a]) <=> (a \in DOMAIN distances[b])
            /\ b \in DOMAIN distances[a] => distances[a][b] = distances[b][a]

\* C6 witness: the index is built with two queried stations a positive
\* distance apart and a third queried station that reaches neither.
C6_Witness ==
    /\ pc = "indexed"
    /\ \E a \in stations_needed, b \in stations_needed, c \in stations_needed :
          /\ b \in DOMAIN distances[a]
          /\ distances[a][b] > 0
          /\ c \notin DOMAIN distances[a]
          /\ a \notin DOMAIN distances[c]

\* C7: d(x, x) is 0 for every station x and does not raise, whatever the
\* distance table holds at the time (built, half built or empty), and the
\* table itself holds 0 for a queried x, a self-loop of non-zero fee or the
\* absence of any edge at x notwithstanding.
C7_SelfDistanceZero ==
    /\ \A x \in Stations : d(x, x) = Val(0)
    /\ pc = "indexed" => \A x \in stations_needed : distances[x][x] = 0

\* C7 witness: the index is built, a queried station has a self-loop of
\* non-zero fee and another queried station occurs in no edge.
C7_Witness ==
    /\ pc = "indexed"
    /\ \E x \in stations_needed, y \in stations_needed :
          /\ \E f \in DirectFees(payload.subway, x, x) : f > 0
          /\ y \notin EdgeStations(payload.subway)
          /\ d(x, x) = Val(0)
          /\ d(y, y) = Val(0)


(***************************************************************************)
(* Reference definitions on the scheduler's input.                         *)
(***************************************************************************)

\* The shortest-path distance of the claims, d(x, x) = 0.
RefD(a, b) == IF a = b THEN 0 ELSE RefDist(payload.subway, a)[b]

\* Whether b can be reached from a through the subway edges.
RefReachable(a, b) == a = b \/ b \in DOMAIN RefDist(payload.subway, a)

\* Every task's station can be reached from home.
AllReachable ==
    LET reach == DOMAIN RefDist(payload.subway, payload.starting_station)
    IN \A k \in 1..Len(payload.tasks) : payload.tasks[k].station \in reach

\* The task of the input that bears a name (names are distinct).
TaskNamed(nm) ==
    payload.tasks[CHOOSE k \in 1..Len(payload.tasks) : payload.tasks[k].name = nm]

\* Two tasks do not overlap: one ends no later than the other starts.
Disjoint(x, y) == x.end <= y.start \/ y.end <= x.start

\* A set of positions of the input whose tasks are pairwise non-overlapping.
Compatible(S) ==
    \A a \in S, b \in S : a # b => Disjoint(payload.tasks[a], payload.tasks[b])

CompatibleSets == {S \in SUBSET (1..Len(payload.tasks)) : Compatible(S)}

RECURSIVE TotalScore(_)
TotalScore(S) ==
    IF S = {} THEN 0
    ELSE LET k == CHOOSE x \in S : TRUE
         IN payload.tasks[k].score + TotalScore(S \ {k})

\* The best total score of a set of pairwise non-overlapping tasks.
BestScore == CHOOSE m \in {TotalScore(S) : S \in CompatibleSets} :
                 \A S \in CompatibleSets : TotalScore(S) <= m

\* The total fee of the legs of a route.
RECURSIVE RouteFee(_)
RouteFee(route) ==
    IF Len(route) < 2 THEN 0
    ELSE RefD(route[1], route[2]) + RouteFee(Tail(route))

\* home -> the locations in the order given -> home.
TourFee(locations) ==
    RouteFee(<<payload.starting_station>> \o locations
                 \o <<payload.starting_station>>)

\* The stations of a compatible set's tasks in chronological order.
RECURSIVE Chronological(_)
Chronological(S) ==
    IF S = {} THEN <<>>
    ELSE LET k == CHOOSE x \in S :
                      \A y \in S : payload.tasks[x].start <= payload.tasks[y].start
         IN <<payload.tasks[k].station>> \o Chronological(S \ {k})

\* The least tour fee of a compatible set that attains the best score.
BestFee == Min({TourFee(Chronological(S)) :
                   S \in {T \in CompatibleSets : TotalScore(T) = BestScore}})

\* The tasks the returned schedule names, in the order it lists them.
Scheduled == [k \in 1..Len(result.schedule) |-> TaskNamed(result.schedule[k])]

(***************************************************************************)
(* Claims on solve_princess_diaries, checked under Spec.                   *)
(***************************************************************************)

\* C1: the tasks of a returned schedule are pairwise non-overlapping: of
\* any two entries, one's task ends no later than the other's starts
\* (which also rules a task listed twice out, since end > start).
C1_ScheduleNonOverlapping ==
    pc = "done" =>
        \A a \in 1..Len(result.schedule), b \in 1..Len(result.schedule) :
            a # b => Disjoint(Scheduled[a], Scheduled[b])

\* C1 witness: a returned schedule of two tasks that touch at a boundary,
\* a third task of the input overlapping one of them and left out.
C1_Witness ==
    /\ pc = "done"
    /\ Len(result.schedule) = 2
    /\ Scheduled[1].end = Scheduled[2].start
    /\ \E k \in 1..Len(payload.tasks) :
          /\ \A a \in 1..2 : payload.tasks[k].name # result.schedule[a]
          /\ ~Disjoint(payload.tasks[k], Scheduled[1])

\* C2: the returned max_score is the maximum total score of a set of
\* pairwise non-overlapping tasks of the input, the empty set included.
C2_MaxScoreIsMaximal ==
    pc = "done" => result.max_score = BestScore

\* C2 witness: a result whose score is reached by two tasks while a third
\* task, left out because it overlaps both, scores no less than either of
\* them and less than both together.
C2_Witness ==
    /\ pc = "done"
    /\ Len(result.schedule) = 2
    /\ \E k \in 1..Len(payload.tasks) :
          /\ \A a \in 1..2 :
                /\ payload.tasks[k].name # result.schedule[a]
                /\ ~Disjoint(payload.tasks[k], Scheduled[a])
                /\ payload.tasks[k].score >= Scheduled[a].score
          /\ payload.tasks[k].score < result.max_score

\* C3 as claimed: the returned min_fee is the least tour fee of a set of
\* pairwise non-overlapping tasks whose total score is max_score.
C3_MinFeeIsMinimal ==
    (pc = "done" /\ AllReachable) => result.min_fee = BestFee

\* C4: the returned min_fee is the fee of the tour through the returned
\* schedule in the order it is listed, under shortest-path distances:
\* d(home, L1) + d(L1, L2) + ... + d(Lk, home), 0 for an empty schedule.
C4_MinFeeIsTourOfSchedule ==
    pc = "done" =>
        result.min_fee = TourFee([k \in 1..Len(Scheduled) |-> Scheduled[k].station])

\* C4 witness: a returned schedule of three tasks, the first away from
\* home and each at another station than the one before, so that the
\* incremental update ran twice, with a leg that no single edge covers.
C4_Witness ==
    /\ pc = "done"
    /\ Len(result.schedule) = 3
    /\ Scheduled[1].station # payload.starting_station
    /\ Scheduled[2].station # Scheduled[1].station
    /\ Scheduled[3].station # Scheduled[2].station
    /\ \E k \in 1..2 :
          DirectFees(payload.subway, Scheduled[k].station,
                     Scheduled[k + 1].station) = {}
    /\ result.min_fee > 0

\* The result of the early return.
ZeroResult == [max_score |-> 0, min_fee |-> 0, schedule |-> <<>>]

\* C8: with an empty task list the call returns score 0, fee 0 and an empty
\* schedule whatever the edge list holds, straight from the start: no
\* graph is built, no distance computed, no DP or reconstruction step taken.
C8_EmptyTasksZeroResult ==
    payload.tasks = <<>> =>
        /\ pc \in {"start", "done"}
        /\ pc = "start" => ENABLED ReturnEmpty
        /\ pc = "done" =>
              /\ result = ZeroResult
              /\ graph = Unset
              /\ distances = EmptyDict
              /\ stations_needed = Unset

\* C8 witness: the zero result returned for an empty task list whose edge
\* list has a self-loop and leaves a station unconnected.
C8_Witness ==
    /\ payload.tasks = <<>>
    /\ pc = "done"
    /\ result = ZeroResult
    /\ \E x \in Stations : DirectFees(payload.subway, x, x) # {}
    /\ \E y \in Stations : y \notin EdgeStations(payload.subway)

\* The case of C9: exactly two tasks, overlapping, of equal positive score,
\* at different stations.
TwoRivals ==
    /\ Len(payload.tasks) = 2
    /\ ~Disjoint(payload.tasks[1], payload.tasks[2])
    /\ payload.tasks[1].score = payload.tasks[2].score
    /\ payload.tasks[1].score > 0
    /\ payload.tasks[1].station # payload.tasks[2].station

\* The round-trip fee of a task on its own.
RoundTrip(t) == 2 * RefD(payload.starting_station, t.station)

\* C9: of two overlapping tasks of equal positive score at different
\* stations exactly one is scheduled, max_score is the common score, and
\* the one scheduled has no higher a round-trip fee than the other: the
\* strictly cheaper one when the fees differ, whichever sorts first.
C9_RivalsCheaperWins ==
    (TwoRivals /\ pc = "done") =>
        /\ Len(result.schedule) = 1
        /\ result.max_score = payload.tasks[1].score
        /\ \A k \in 1..2 : RoundTrip(Scheduled[1]) <= RoundTrip(payload.tasks[k])
        /\ result.min_fee = RoundTrip(Scheduled[1])

\* C9 witness: two such rivals of different fees, the cheaper one sorting
\* second by (end, start, name) and replacing the first in the DP.
C9_Witness ==
    /\ TwoRivals
    /\ pc = "done"
    /\ RoundTrip(payload.tasks[1]) # RoundTrip(payload.tasks[2])
    /\ result.schedule = <<tasks[2].name>>

\* C10: when some task's station cannot be reached from home, the call
\* never gets past the DP loop and never has a result: it has ended in the
\* error, or it is still before or in the loop with a task of unreachable
\* station at or ahead of the loop's index.
C10_UnreachableRaises ==
    ~AllReachable =>
        /\ pc \in {"start", "dp", "error"}
        /\ result = Unset
        /\ pc = "dp" =>
              \E k \in i..Len(tasks) :
                  ~RefReachable(payload.starting_station, tasks[k].station)

\* C10 witness: the call has ended in the error on an input whose only
\* unreachable task scores 0 and overlaps a reachable task that scores more.
C10_Witness ==
    /\ pc = "error"
    /\ \E k \in 1..Len(payload.tasks), m \in 1..Len(payload.tasks) :
          /\ ~RefReachable(payload.starting_station, payload.tasks[k].station)
          /\ payload.tasks[k].score = 0
          /\ payload.tasks[m].score > 0
          /\ ~Disjoint(payload.tasks[k], payload.tasks[m])
          /\ \A x \in 1..Len(payload.tasks) :
                x # k => RefReachable(payload.starting_station,
                                      payload.tasks[x].station)


(***************************************************************************)
(* Claims on requests with missing keys, checked under SpecFields.         *)
(***************************************************************************)

\* The request lacks a required key: the home station, the task list, the
\* edge list, a field of a task or a field of an edge.
LacksField ==
    \/ ~({"starting_station", "tasks", "subway"} \subseteq DOMAIN payload)
    \/ /\ has(payload, "tasks")
       /\ \E k \in 1..Len(payload.tasks) :
             ~(TaskKeys \subseteq DOMAIN payload.tasks[k])
    \/ /\ has(payload, "subway")
       /\ \E k \in 1..Len(payload.subway) :
             ~(EdgeKeys \subseteq DOMAIN payload.subway[k])

\* The call has returned from line 50, no distance computed.
ReturnedEarly == pc = "done" /\ distances = EmptyDict

\* C11 as claimed: a request that lacks a required key never gets a
\* result, the call ends in an error; and the early zero result is
\* returned only for a task list that is present and empty.
C11_MissingFieldRaises ==
    /\ LacksField => (pc # "done" /\ result = Unset)
    /\ ReturnedEarly => (has(payload, "tasks") /\ payload.tasks = <<>>)


(***************************************************************************)
(* Claims on runs of calls, checked under SpecCalls.                       *)
(***************************************************************************)

FarAway == MaxStation * MaxFee + 1

RECURSIVE SumOver(_, _)
SumOver(S, f) ==
    IF S = {} THEN 0
    ELSE LET x == CHOOSE y \in S : TRUE IN f[x] + SumOver(S \ {x}, f)

\* The work a dijkstra run has left: the entries of its queue, and for each
\* station twice the room its tentative distance has to go down (a push
\* lowers a distance by 1 at least, or enters a station).
DijkstraWork ==
    Len(dj.pq)
      + 2 * SumOver(Stations,
                    [v \in Stations |->
                        IF v \in DOMAIN dj.dist THEN dj.dist[v] ELSE FarAway])

\* The predecessor indices are there from the DP loop on (a call that
\* returns from line 50 has none).
HasPredecessors ==
    \/ pc \in {"dp", "reconstruct", "error"}
    \/ pc = "done" /\ distances # EmptyDict

\* Every predecessor index is below its own index; the DP index is in
\* range, so dp[p[i]] and dp[i - 1] were written before dp[i] is; the
\* reconstruction index is in range; the work left of a dijkstra run is a
\* natural number.
LoopsInRange ==
    /\ HasPredecessors =>
          \A k \in 1..Len(tasks) : 0 <= p[k] /\ p[k] < k
    /\ pc = "dp" => i \in 1..Len(tasks)
    /\ pc = "reconstruct" => i \in 0..Len(tasks)
    /\ pc = "dijkstra" =>
          /\ \A v \in DOMAIN dj.dist : dj.dist[v] \in 0..(FarAway - 1)
          /\ DijkstraWork >= 0

\* Every iteration of a loop brings the loop nearer its end: the DP index
\* goes up by one, the reconstruction index goes down, the work left of
\* the dijkstra run goes down, a source of all_pairs_needed_dists is done.
LoopsAdvance ==
    /\ (pc = "dp" /\ pc' = "dp") => i' = i + 1
    /\ (pc = "reconstruct" /\ pc' = "reconstruct") => (i' < i /\ i' >= 0)
    /\ (pc = "dijkstra" /\ pc' = "dijkstra") => DijkstraWork' < DijkstraWork
    /\ (pc = "dijkstra" /\ pc' = "all_pairs") =>
          /\ dj.pq = <<>>
          /\ DOMAIN distances' = DOMAIN distances \cup {dj.start}
          /\ dj.start \notin DOMAIN distances

\* C13: on inputs with end > start and fees >= 0 every loop of the call
\* ends. Every predecessor index satisfies 0 <= p[i] < i, so the DP reads
\* entries written before; the reconstruction index strictly decreases
\* and stays at or above 0, where the loop stops; the work a dijkstra run
\* has left is a natural number that every pop lowers, so the queue
\* empties.
C13_Terminates ==
    /\ []LoopsInRange
    /\ [][LoopsAdvance]_vars

\* C13 witness: a call has returned a schedule of two tasks or more; the
\* reconstruction has skipped a task and has jumped from a task to a
\* predecessor two places or more below that is not 0; a scheduled task is
\* away from home, behind an edge of fee 0.
C13_Witness ==
    /\ pc = "done"
    /\ Len(result.schedule) >= 2
    /\ \E k \in 1..Len(tasks) : choice[k] = 0
    /\ \E k \in 1..Len(tasks) : choice[k] = 1 /\ p[k] > 0 /\ p[k] < k - 1
    /\ \E k \in 1..Len(tasks), e \in 1..Len(payload.subway) :
          /\ choice[k] = 1
          /\ payload.subway[e].fee = 0
          /\ payload.subway[e].connection
                = <<payload.starting_station, tasks[k].station>>

=============================================================================
